---- MODULE Spec2Model ----
(***************************************************************************)
(* Model of the scraping engine of Dharinesh/scrape_image:                 *)
(*   - AmazonReviewsScraper  (src/scraping_final.py, src/combined.py):     *)
(*     session start, navigation, the pagination walk, per-container       *)
(*     extraction;                                                         *)
(*   - AmazonRufusScraper    (src/combined.py, src/product_details.py):    *)
(*     session start, navigation with the login gate, Q&A and insight      *)
(*     extraction, result aggregation.                                     *)
(* Strings are sequences of symbols.  The symbol STAR stands for the       *)
(* substring "a-star-", SP for one whitespace character.                   *)
(***************************************************************************)
EXTENDS Integers, Sequences, FiniteSets, TLC

VARIABLES
    \* ---- AmazonReviewsScraper: object fields
    driver,           \* self.driver: "None" | "open" | "quit" (a handle whose
                      \* browser has been quit; truthy like "open")
    wait,             \* self.wait:   "None" | "set"
    \* ---- scrape_reviews: locals and position
    pc,               \* "idle" | "nav" | "wait" | "harvest" | "done" | "raised"
    max_pages,        \* argument max_pages
    page,             \* loop variable of `for page in range(1, max_pages + 1)`
    review_elements,  \* result of find_elements on the current page
    elem_idx,         \* number of elements of review_elements already visited
    reviews_data,     \* the accumulating list
    ret,              \* the returned list (meaningful when pc = "done")
    \* ---- the web site and the observation of the run
    site_pages,       \* number of review pages the site can show
    start_outcome,    \* what start_driver met: "none" | "ok" | "chrome_fail" | "script_fail"
    navs,             \* number of driver.get calls
    cycles,           \* number of harvest cycles begun
    probes,           \* number of go_to_next_page calls
    clicks,           \* number of next_button.click() calls
    origin,           \* origin[i] = <<page, index>> of the container behind reviews_data[i]
    seen,             \* seen[p] = the containers page p showed
    faults,           \* number of unexpected exceptions the browser raised
    last_ctl,         \* state of the "next" control at the last probe ("none" before)
    stop              \* why the walk ended: "none" | "capped" | "exhausted" | "timeout" | "error"

VARIABLES
    \* ---- AmazonRufusScraper: object fields
    rufus_driver,     \* self.driver: "None" | "open" | "quit"
    rufus_wait,       \* self.wait:   "None" | "set"
    \* ---- scrape_product_data and its callees: locals and position
    ipc,              \* "idle" | "get" | "gate_scan" | "gate_url" | "login_wait" |
                      \* "post_gate" | "settle" | "questions" | "summary" |
                      \* "aspects" | "done"
    results,          \* the result dictionary
    attempt,          \* loop variable of wait_for_login_completion
    questions,        \* the list built by extract_rufus_questions
    q_sel,            \* index of the question selector being tried
    insights,         \* the dictionary built by extract_customer_insights
    s_sel,            \* index of the summary / aspect selector being tried
    product_gets,     \* number of driver.get calls of navigate_to_product
    gate_checks,      \* number of handle_login_if_required calls
    poll_faults,      \* login polls of the current wait that raised
    open_sessions,    \* browsers this scraper started and has not quit
    runs,             \* number of scrape_product_data calls that have ended
    \* ---- the observation of the run
    gate_clicks,      \* synthetic clicks of the current sign-in scan
    polls,            \* login polls of the current wait_for_login_completion
    login_slept,      \* seconds slept by the current wait_for_login_completion
    login_outcome,    \* "none" | "detected" | "timeout"
    exit_at           \* where scrape_product_data returned: "none" |
                      \* "start_failed" | "navigate_failed" | "exception" | "completed"

VARIABLES
    \* ---- the life cycle of one AmazonReviewsScraper
    closes,           \* number of close_driver() calls
    quits,            \* number of self.driver.quit() calls
    close_raised,     \* a close_driver() call raised
    calls             \* number of scrape_reviews calls that have ended

VARIABLES
    \* ---- get_reviews_url: arguments and result
    module,           \* which copy is called: "scraping_final" | "combined"
    product_id,       \* argument product_id, a string
    is_my_product,    \* argument is_my_product
    reviews_url       \* the returned URL, a sequence of parts (<<>> before the call)

VARIABLES
    \* ---- the product page as the extraction strategies see it
    dom_summary,      \* dom_summary[k]: what summary selector k finds
    dom_fallback      \* what the unscoped button selector finds

VARIABLES
    \* ---- extract_review_data: argument and result
    container,        \* the review container
    record            \* the returned dictionary, NoneVal, or Pending

VARIABLES
    \* ---- automated_scrape_and_analyze
    variant,          \* "rufus_img_gen" | "static_image_gen"
    stage,            \* position in the function
    rufus_scraper,    \* browser of rufus_scraper: "None" | "open" | "quit"
    reviews_scraper,  \* browser of reviews_scraper: "None" | "open" | "quit"
    exit_path,        \* how the try block of the step was left: "none" |
                      \* "through" | "return" | "except"
    stage_log,        \* the stages begun, in order, with what each yielded
    file_idx,         \* files of files_to_check found so far
    returned          \* "none" | "None" | "result"

rvars == <<driver, wait, pc, max_pages, page, review_elements, elem_idx,
           reviews_data, ret, site_pages, start_outcome, navs, cycles,
           probes, clicks, origin, seen, faults, last_ctl, stop>>

ivars == <<rufus_driver, rufus_wait, ipc, results, attempt, questions, q_sel,
           insights, s_sel, product_gets, gate_checks, poll_faults, gate_clicks,
           polls, login_slept, login_outcome, exit_at, open_sessions, runs>>

lvars == <<closes, quits, close_raised, calls>>

uvars == <<module, product_id, is_my_product, reviews_url>>

dvars == <<dom_summary, dom_fallback>>

evars == <<container, record>>

ovars == <<variant, stage, rufus_scraper, reviews_scraper, exit_path,
           stage_log, file_idx, returned>>

vars == <<rvars, ivars, lvars, uvars, dvars, evars, ovars>>

----------------------------------------------------------------------------
\* Bounds of the model
MaxPagesArg == 3        \* largest max_pages argument
MaxSitePages == 3       \* largest number of pages a site shows
MaxWalkContainers == 2  \* containers per page during a walk
MaxContainers == 3      \* containers on the page of a single harvest

----------------------------------------------------------------------------
\* Strings
STAR == "a-star-"
SP == " "
NA == <<"N/A">>
Digits == {"1", "2", "3", "4", "5"}

RECURSIVE lstrip(_)
lstrip(s) == IF s # <<>> /\ Head(s) = SP THEN lstrip(Tail(s)) ELSE s

RECURSIVE rstrip(_)
rstrip(s) ==
    IF s # <<>> /\ s[Len(s)] = SP THEN rstrip(SubSeq(s, 1, Len(s) - 1)) ELSE s

\* str.strip()
strip(s) == rstrip(lstrip(s))

\* the part of s before the first symbol in stops (all of s when there is none)
RECURSIVE TakeUntil(_, _)
TakeUntil(s, stops) ==
    IF s = <<>> \/ Head(s) \in stops THEN <<>>
    ELSE <<Head(s)>> \o TakeUntil(Tail(s), stops)

\* the part of s after the first occurrence of symbol c (s contains c)
RECURSIVE DropThrough(_, _)
DropThrough(s, c) ==
    IF s = <<>> THEN <<>>
    ELSE IF Head(s) = c THEN Tail(s) ELSE DropThrough(Tail(s), c)

Contains(s, c) == \E i \in 1..Len(s) : s[i] = c

\* rating_text.split('a-star-')[1]: the text between the first marker and
\* the next one (or the end)
AfterMarker(s) == TakeUntil(DropThrough(s, STAR), {STAR})

\* seg.split(): the whitespace-separated words of seg; only the first is used
FirstWord(seg) == TakeUntil(lstrip(seg), {SP})

\* seg.split() = [] : indexing [0] raises IndexError
NoWord(seg) == lstrip(seg) = <<>>

----------------------------------------------------------------------------
\* Record containers.  A sub-element is [present, raw]: whether the locator
\* finds it and its raw text.  The rating element is [present, hasClass, cls].
Txt == <<"t">>
ElemText(raw) == [present |-> TRUE, raw |-> raw]
ElemAbsent == [present |-> FALSE, raw |-> <<>>]
RatingClass(cls) == [present |-> TRUE, hasClass |-> TRUE, cls |-> cls]
RatingAbsent == [present |-> FALSE, hasClass |-> FALSE, cls |-> <<>>]

Container(rating, stale) ==
    [stale |-> stale, title |-> ElemText(Txt), rating |-> rating,
     text |-> ElemText(<<SP, "t", SP>>), author |-> ElemText(Txt),
     date |-> ElemText(Txt), verified |-> TRUE, helpful |-> ElemAbsent]

Rated5 == Container(RatingClass(<<"x", SP, STAR, "5", SP, "x">>), FALSE)
Rated4 == Container(RatingClass(<<STAR, "4">>), FALSE)
RatingMissing == Container(RatingAbsent, FALSE)
RatingNoToken == Container(RatingClass(<<"x">>), FALSE)
RatingBare == Container(RatingClass(<<"x", SP, STAR>>), FALSE)
Stale == Container(RatingClass(<<STAR, "5">>), TRUE)

WalkPalette == {Rated5, Stale}
HarvestPalette == {Rated5, Rated4, RatingMissing, RatingNoToken, RatingBare, Stale}

SeqsUpTo(S, n) == UNION {[1..k -> S] : k \in 1..n}

WalkPageMenu == SeqsUpTo(WalkPalette, MaxWalkContainers)
HarvestPageMenu == SeqsUpTo(HarvestPalette, MaxContainers)

----------------------------------------------------------------------------
\* extract_review_data
NoneVal == [isNone |-> TRUE]

\* the call has not returned yet
Pending == [pending |-> TRUE]

\* a text field: element.text.strip(), or the sentinel when the locator
\* raises NoSuchElementException
TextField(e) == IF e.present THEN strip(e.raw) ELSE NA

\* the rating expression raises: get_attribute('class') gave None (TypeError),
\* or the text after the marker has no word (IndexError)
RatingRaises(r) ==
    /\ r.present
    /\ \/ ~r.hasClass
       \/ Contains(r.cls, STAR) /\ NoWord(AfterMarker(r.cls))

RatingValue(r) ==
    IF ~r.present THEN NA
    ELSE IF Contains(r.cls, STAR) THEN FirstWord(AfterMarker(r.cls))
    ELSE NA

\* an exception other than NoSuchElementException is raised inside
\* extract_review_data: a stale element, or the rating expression
ExtractionFails(c) == c.stale \/ RatingRaises(c.rating)

ReviewRecord(c) ==
    [title |-> TextField(c.title),
     rating |-> RatingValue(c.rating),
     text |-> TextField(c.text),
     author |-> TextField(c.author),
     date |-> TextField(c.date),
     verified_purchase |-> IF c.verified THEN "Yes" ELSE "No",
     helpful_votes |-> IF c.helpful.present THEN strip(c.helpful.raw) ELSE <<"0">>]

\* the outer handler turns every failure into None
extract_review_data_rating_uncaught(c) ==
    IF ExtractionFails(c) \/ ~c.rating.present THEN NoneVal ELSE ReviewRecord(c)

extract_review_data(c) ==
    IF ExtractionFails(c) THEN NoneVal ELSE ReviewRecord(c)

----------------------------------------------------------------------------
\* AmazonRufusScraper: the result dictionary and the state after __init__

EmptyDict == [isEmptyDict |-> TRUE]

\* the dictionary scrape_product_data starts from; has_error tells whether
\* the key 'error' is present
InitialResults ==
    [rufus_questions |-> <<>>,
     customer_insights |-> EmptyDict,
     data_sources_found |-> <<>>,
     success |-> FALSE,
     has_error |-> FALSE]

\* insights = {'customers_say_summary': '', 'aspects': []}
InitialInsights == [customers_say_summary |-> <<>>, aspects |-> <<>>]

InsightsIdle ==
    /\ rufus_driver = "None"
    /\ rufus_wait = "None"
    /\ ipc = "idle"
    /\ results = InitialResults
    /\ attempt = 0
    /\ questions = <<>>
    /\ q_sel = 0
    /\ insights = InitialInsights
    /\ s_sel = 0
    /\ open_sessions = 0
    /\ runs = 0
    /\ product_gets = 0
    /\ gate_checks = 0
    /\ poll_faults = 0
    /\ gate_clicks = 0
    /\ polls = 0
    /\ login_slept = 0
    /\ login_outcome = "none"
    /\ exit_at = "none"

\* no close_driver() call and no finished scrape_reviews call yet
LifecycleIdle ==
    /\ closes = 0
    /\ quits = 0
    /\ close_raised = FALSE
    /\ calls = 0

\* no product page is inspected outside a scrape_product_data run
DomIdle ==
    /\ dom_summary = <<>>
    /\ dom_fallback = <<>>

\* extract_review_data is not called on its own
ExtractIdle ==
    /\ container = <<>>
    /\ record = Pending

\* automated_scrape_and_analyze has not been called
OrchestratorIdle ==
    /\ variant = "rufus_img_gen"
    /\ stage = "idle"
    /\ rufus_scraper = "None"
    /\ reviews_scraper = "None"
    /\ exit_path = "none"
    /\ stage_log = <<>>
    /\ file_idx = 0
    /\ returned = "none"

\* get_reviews_url has not been called
UrlIdle ==
    /\ module = "scraping_final"
    /\ product_id = <<>>
    /\ is_my_product = TRUE
    /\ reviews_url = <<>>

----------------------------------------------------------------------------
\* AmazonReviewsScraper.scrape_reviews

\* the handle in self.driver belongs to a running browser; every call on a
\* handle whose browser has been quit raises
SessionLive == driver = "open"

InitReviews ==
    /\ InsightsIdle
    /\ LifecycleIdle
    /\ DomIdle
    /\ ExtractIdle
    /\ OrchestratorIdle
    /\ UrlIdle
    /\ driver = "None"
    /\ wait = "None"
    /\ pc = "idle"
    /\ max_pages \in 0..MaxPagesArg
    /\ page = 0
    /\ review_elements = <<>>
    /\ elem_idx = 0
    /\ reviews_data = <<>>
    /\ ret = <<>>
    /\ site_pages \in 0..MaxSitePages
    /\ start_outcome = "none"
    /\ navs = 0
    /\ cycles = 0
    /\ probes = 0
    /\ clicks = 0
    /\ origin = <<>>
    /\ seen = <<>>
    /\ faults = 0
    /\ last_ctl = "none"
    /\ stop = "none"

\* `return reviews_data`, from the end of the loop (line 101) or from the
\* handler of the outer try (line 105)
Finish_ret_empty_on_error(reason) ==
    /\ pc' = "done"
    /\ ret' = IF reason = "error" THEN <<>> ELSE reviews_data
    /\ stop' = reason

Finish(reason) ==
    /\ pc' = "done"
    /\ ret' = reviews_data
    /\ stop' = reason

\* `for page in range(1, max_pages + 1)`
InRange_exclusive(p) == p \in 1..(max_pages - 1)

InRange(p) == p \in 1..max_pages

\* `if page < max_pages`
ProbeNeeded_inclusive == page <= max_pages

ProbeNeeded == page < max_pages

\* the end of one iteration: the next value of the range, or the end of the loop
NextIteration ==
    IF InRange(page + 1)
    THEN pc' = "wait" /\ page' = page + 1 /\ UNCHANGED <<ret, stop>>
    ELSE Finish("capped") /\ page' = page

\* start_driver, called by scrape_reviews when self.driver is unset
start_driver_swallows ==
    /\ pc = "idle"
    /\ driver = "None"
    /\ \E o \in {"ok", "chrome_fail", "script_fail"} :
          /\ start_outcome' = o
          /\ driver' = IF o = "chrome_fail" THEN "None" ELSE "open"
          /\ wait' = IF o = "ok" THEN "set" ELSE "None"
          /\ pc' = "nav"
    /\ UNCHANGED <<max_pages, page, review_elements, elem_idx, reviews_data,
                   ret, site_pages, navs, cycles, probes, clicks, origin,
                   seen, stop, faults, last_ctl>>

start_driver ==
    /\ pc = "idle"
    /\ driver = "None"
    /\ \E o \in {"ok", "chrome_fail", "script_fail"} :
          /\ start_outcome' = o
          /\ driver' = IF o = "chrome_fail" THEN "None" ELSE "open"
          /\ wait' = IF o = "ok" THEN "set" ELSE "None"
          /\ pc' = IF o = "ok" THEN "nav" ELSE "raised"
    /\ UNCHANGED <<max_pages, page, review_elements, elem_idx, reviews_data,
                   ret, site_pages, navs, cycles, probes, clicks, origin,
                   seen, stop, faults, last_ctl>>

\* self.driver.get(reviews_url) and the entry of the loop
navigate ==
    /\ pc = "nav"
    /\ navs' = navs + 1
    /\ \E ok \in {b \in BOOLEAN : b => SessionLive} :
          IF ~ok THEN Finish("error") /\ page' = page /\ faults' = faults + 1
          ELSE /\ faults' = faults
               /\ IF InRange(1)
                  THEN pc' = "wait" /\ page' = 1 /\ UNCHANGED <<ret, stop>>
                  ELSE Finish("capped") /\ page' = page
    /\ UNCHANGED <<driver, wait, max_pages, review_elements, elem_idx,
                   reviews_data, site_pages, start_outcome, cycles, probes,
                   clicks, origin, seen, last_ctl>>

\* self.wait.until(presence of a review container), then find_elements.
\* With self.wait unset the attribute access raises; the handler of
\* TimeoutException does not catch it
wait_for_reviews ==
    /\ pc = "wait"
    /\ \E fault \in {b \in BOOLEAN : ~(SessionLive /\ wait = "set") => b} :
          IF fault THEN
              /\ Finish("error")
              /\ faults' = faults + 1
              /\ UNCHANGED <<review_elements, elem_idx, cycles, seen>>
          ELSE IF page > site_pages THEN
              /\ Finish("timeout")
              /\ UNCHANGED <<review_elements, elem_idx, cycles, seen, faults>>
          ELSE \E els \in WalkPageMenu :
              /\ review_elements' = els
              /\ elem_idx' = 0
              /\ cycles' = cycles + 1
              /\ seen' = Append(seen, els)
              /\ pc' = "harvest"
              /\ UNCHANGED <<ret, stop, faults>>
    /\ UNCHANGED <<driver, wait, max_pages, page, reviews_data, site_pages,
                   start_outcome, navs, probes, clicks, origin, last_ctl>>

\* the iteration with a duplicate check: a record equal to one already in
\* the list is not appended
harvest_element_dedup ==
    /\ pc = "harvest"
    /\ elem_idx < Len(review_elements)
    /\ elem_idx' = elem_idx + 1
    /\ LET review_data == IF SessionLive
                          THEN extract_review_data(review_elements[elem_idx + 1])
                          ELSE NoneVal
       IN IF review_data # NoneVal
             /\ \A j \in 1..Len(reviews_data) : reviews_data[j] # review_data
          THEN /\ reviews_data' = Append(reviews_data, review_data)
               /\ origin' = Append(origin, <<page, elem_idx + 1>>)
          ELSE UNCHANGED <<reviews_data, origin>>
    /\ UNCHANGED <<driver, wait, pc, max_pages, page, review_elements, ret,
                   site_pages, start_outcome, navs, cycles, probes, clicks,
                   seen, stop, faults, last_ctl>>

\* one iteration of `for review_element in review_elements`
harvest_element ==
    /\ pc = "harvest"
    /\ elem_idx < Len(review_elements)
    /\ elem_idx' = elem_idx + 1
    /\ LET review_data == IF SessionLive
                          THEN extract_review_data(review_elements[elem_idx + 1])
                          ELSE NoneVal
       IN IF review_data # NoneVal
          THEN /\ reviews_data' = Append(reviews_data, review_data)
               /\ origin' = Append(origin, <<page, elem_idx + 1>>)
          ELSE UNCHANGED <<reviews_data, origin>>
    /\ UNCHANGED <<driver, wait, pc, max_pages, page, review_elements, ret,
                   site_pages, start_outcome, navs, cycles, probes, clicks,
                   seen, stop, faults, last_ctl>>

\* the last page of the range: the "next" control is not probed
last_page ==
    /\ pc = "harvest"
    /\ elem_idx = Len(review_elements)
    /\ ~ProbeNeeded
    /\ NextIteration
    /\ UNCHANGED <<driver, wait, max_pages, review_elements, elem_idx,
                   reviews_data, site_pages, start_outcome, navs, cycles,
                   probes, clicks, origin, seen, faults, last_ctl>>

\* what the "next" control can be on the current page; "find_raises": the
\* lookup itself raises an exception other than NoSuchElementException
NextControl ==
    IF ~SessionLive THEN {"find_raises"}
    ELSE IF page < site_pages THEN {"enabled", "click_raises"}
    ELSE {"absent", "disabled", "enabled", "click_raises"}

\* the result of go_to_next_page for a state of the control
NextPageResult_clicks_disabled(ctl) ==
    CASE ctl = "absent" -> "False"
      [] ctl = "disabled" -> "True"
      [] ctl = "enabled" -> "True"
      [] ctl = "click_raises" -> "raise"
      [] ctl = "find_raises" -> "raise"

NextPageResult(ctl) ==
    CASE ctl = "absent" -> "False"
      [] ctl = "disabled" -> "False"
      [] ctl = "enabled" -> "True"
      [] ctl = "click_raises" -> "raise"
      [] ctl = "find_raises" -> "raise"

\* `if page < max_pages: if not self.go_to_next_page(): break`
go_to_next_page ==
    /\ pc = "harvest"
    /\ elem_idx = Len(review_elements)
    /\ ProbeNeeded
    /\ probes' = probes + 1
    /\ \E ctl \in NextControl :
          /\ last_ctl' = ctl
          /\ clicks' = IF ctl \in {"enabled", "click_raises"} THEN clicks + 1 ELSE clicks
          /\ faults' = IF ctl \in {"click_raises", "find_raises"}
                        THEN faults + 1 ELSE faults
          /\ CASE NextPageResult(ctl) = "True" -> NextIteration
               [] NextPageResult(ctl) = "raise" -> Finish("error") /\ page' = page
               [] OTHER -> Finish("exhausted") /\ page' = page
    /\ UNCHANGED <<driver, wait, max_pages, review_elements, elem_idx,
                   reviews_data, site_pages, start_outcome, navs, cycles,
                   origin, seen>>

NextReviews ==
    \/ start_driver /\ UNCHANGED <<ivars, lvars, uvars, dvars, evars, ovars>>
    \/ navigate /\ UNCHANGED <<ivars, lvars, uvars, dvars, evars, ovars>>
    \/ wait_for_reviews /\ UNCHANGED <<ivars, lvars, uvars, dvars, evars, ovars>>
    \/ harvest_element /\ UNCHANGED <<ivars, lvars, uvars, dvars, evars, ovars>>
    \/ last_page /\ UNCHANGED <<ivars, lvars, uvars, dvars, evars, ovars>>
    \/ go_to_next_page /\ UNCHANGED <<ivars, lvars, uvars, dvars, evars, ovars>>

SpecReviews == InitReviews /\ [][NextReviews]_vars

----------------------------------------------------------------------------
\* The harvest of one page (scrape_reviews with max_pages = 1, from the
\* point where find_elements has returned the containers of page 1)

InitHarvest ==
    /\ InsightsIdle
    /\ LifecycleIdle
    /\ DomIdle
    /\ ExtractIdle
    /\ OrchestratorIdle
    /\ UrlIdle
    /\ driver = "open"
    /\ wait = "set"
    /\ pc = "harvest"
    /\ max_pages = 1
    /\ page = 1
    /\ review_elements \in HarvestPageMenu
    /\ elem_idx = 0
    /\ reviews_data = <<>>
    /\ ret = <<>>
    /\ site_pages = 1
    /\ start_outcome = "ok"
    /\ navs = 1
    /\ cycles = 1
    /\ probes = 0
    /\ clicks = 0
    /\ origin = <<>>
    /\ seen = <<review_elements>>
    /\ faults = 0
    /\ last_ctl = "none"
    /\ stop = "none"

NextHarvest ==
    \/ harvest_element /\ UNCHANGED <<ivars, lvars, uvars, dvars, evars, ovars>>
    \/ last_page /\ UNCHANGED <<ivars, lvars, uvars, dvars, evars, ovars>>

SpecHarvest == InitHarvest /\ [][NextHarvest]_vars

----------------------------------------------------------------------------
\* The life cycle of one AmazonReviewsScraper: scrape_reviews calls on the
\* same object (main calls it twice), with close_driver() calls before,
\* between and during them

MaxCloses == 2        \* close_driver() calls
MaxCalls == 1         \* scrape_reviews calls after the first one
LifecyclePages == 2   \* max_pages of the calls, and pages of the site

InitLifecycle ==
    /\ InitReviews
    /\ max_pages = LifecyclePages
    /\ site_pages = LifecyclePages

\* scrape_reviews, `if not self.driver:` with self.driver set: no session is
\* started, whatever the state of the browser behind the handle
skip_start ==
    /\ pc = "idle"
    /\ driver # "None"
    /\ pc' = "nav"
    /\ UNCHANGED <<driver, wait, max_pages, page, review_elements, elem_idx,
                   reviews_data, ret, site_pages, start_outcome, navs, cycles,
                   probes, clicks, origin, seen, faults, last_ctl, stop>>

\* close_driver without its guard: quit() is called on None
close_driver_unguarded ==
    /\ closes < MaxCloses
    /\ closes' = closes + 1
    /\ quits' = quits + 1
    /\ driver' = IF driver # "None" THEN "quit" ELSE driver
    /\ close_raised' = (close_raised \/ driver = "None")
    /\ UNCHANGED <<wait, pc, max_pages, page, review_elements, elem_idx,
                   reviews_data, ret, site_pages, start_outcome, navs, cycles,
                   probes, clicks, origin, seen, faults, last_ctl, stop, calls>>

\* close_driver: `if self.driver: self.driver.quit()`.  self.driver is not
\* cleared, so a later call quits the same handle again; quit() of the Chrome
\* driver catches the errors of the remote end and does not raise
close_driver ==
    /\ closes < MaxCloses
    /\ closes' = closes + 1
    /\ IF driver # "None"
       THEN driver' = "quit" /\ quits' = quits + 1
       ELSE UNCHANGED <<driver, quits>>
    /\ close_raised' = close_raised
    /\ UNCHANGED <<wait, pc, max_pages, page, review_elements, elem_idx,
                   reviews_data, ret, site_pages, start_outcome, navs, cycles,
                   probes, clicks, origin, seen, faults, last_ctl, stop, calls>>

\* the caller calls scrape_reviews again on the same object: the locals are
\* fresh, the fields self.driver and self.wait are as the last call left them
scrape_again ==
    /\ pc \in {"done", "raised"}
    /\ calls < MaxCalls
    /\ calls' = calls + 1
    /\ pc' = "idle"
    /\ page' = 0
    /\ review_elements' = <<>>
    /\ elem_idx' = 0
    /\ reviews_data' = <<>>
    /\ ret' = <<>>
    /\ start_outcome' = "none"
    /\ navs' = 0
    /\ cycles' = 0
    /\ probes' = 0
    /\ clicks' = 0
    /\ origin' = <<>>
    /\ seen' = <<>>
    /\ faults' = 0
    /\ last_ctl' = "none"
    /\ stop' = "none"
    /\ UNCHANGED <<driver, wait, max_pages, site_pages, closes, quits,
                   close_raised>>

NextLifecycle ==
    \/ start_driver /\ UNCHANGED <<ivars, lvars, uvars, dvars, evars, ovars>>
    \/ skip_start /\ UNCHANGED <<ivars, lvars, uvars, dvars, evars, ovars>>
    \/ navigate /\ UNCHANGED <<ivars, lvars, uvars, dvars, evars, ovars>>
    \/ wait_for_reviews /\ UNCHANGED <<ivars, lvars, uvars, dvars, evars, ovars>>
    \/ harvest_element /\ UNCHANGED <<ivars, lvars, uvars, dvars, evars, ovars>>
    \/ last_page /\ UNCHANGED <<ivars, lvars, uvars, dvars, evars, ovars>>
    \/ go_to_next_page /\ UNCHANGED <<ivars, lvars, uvars, dvars, evars, ovars>>
    \/ close_driver /\ UNCHANGED <<ivars, uvars, dvars, evars, ovars>>
    \/ scrape_again /\ UNCHANGED <<ivars, uvars, dvars, evars, ovars>>

SpecLifecycle == InitLifecycle /\ [][NextLifecycle]_vars

----------------------------------------------------------------------------
\* AmazonRufusScraper: session, navigation and the login gate

MaxAttempts == 10         \* max_attempts of wait_for_login_completion
PollInterval == 2         \* time.sleep(2) of a poll that did not detect completion
SettleDelay == 2          \* time.sleep(2) after completion was detected
NumSigninSelectors == 5   \* length of signin_selectors

\* the pages the browser can be on
URLs == {"product", "signin", "register", "ap_other", "home", "foreign"}

\* "ap/signin" in current_url or "ap/register" in current_url
OnSignin(u) == u \in {"signin", "register"}

\* "ap/" in current_url
HasAp(u) == u \in {"signin", "register", "ap_other"}

\* "amazon.in" in current_url
OnAmazonIn(u) == u # "foreign"

\* product_url in current_url
OnProduct(u) == u = "product"

\* `return results`
Return(where) ==
    /\ ipc' = "done"
    /\ exit_at' = where

\* start_driver of the insights scraper: it reports failure instead of raising
rufus_start_driver ==
    /\ ipc = "idle"
    /\ \E o \in {"ok", "chrome_fail", "script_fail"} :
          /\ rufus_driver' = IF o = "chrome_fail" THEN rufus_driver ELSE "open"
          /\ open_sessions' = IF o = "chrome_fail" THEN open_sessions
                              ELSE open_sessions + 1
          /\ rufus_wait' = IF o = "ok" THEN "set" ELSE rufus_wait
          /\ IF o = "ok" THEN ipc' = "get" /\ exit_at' = exit_at
             ELSE Return("start_failed")
    /\ UNCHANGED <<product_gets, gate_checks, poll_faults, results, attempt,
                   questions, q_sel, insights, s_sel, gate_clicks, polls,
                   login_slept, login_outcome, runs>>

\* navigate_to_product: self.driver.get(product_url)
product_get ==
    /\ ipc = "get"
    /\ product_gets' = product_gets + 1
    /\ \E ok \in BOOLEAN :
          IF ok THEN ipc' = "gate_scan" /\ exit_at' = exit_at
          ELSE Return("navigate_failed")
    /\ UNCHANGED <<rufus_driver, rufus_wait, results, attempt, questions,
                   q_sel, insights, s_sel, gate_checks, poll_faults,
                   gate_clicks, polls, login_slept, login_outcome,
                   open_sessions, runs>>

\* handle_login_if_required: the scan of signin_selectors.  matching is the
\* set of selectors that find a displayed, enabled element with a sign-in
\* text; the `break` leaves the loop over the elements of one selector only
gate_scan ==
    /\ ipc = "gate_scan"
    /\ gate_checks' = gate_checks + 1
    /\ \E fault \in BOOLEAN, matching \in SUBSET (1..NumSigninSelectors) :
          IF fault
          THEN Return("navigate_failed") /\ gate_clicks' = gate_clicks
          ELSE /\ gate_clicks' = Cardinality(matching)
               /\ ipc' = "gate_url"
               /\ exit_at' = exit_at
    /\ UNCHANGED <<product_gets, poll_faults, rufus_driver, rufus_wait,
                   results, attempt, questions, q_sel, insights, s_sel,
                   polls, login_slept, login_outcome, open_sessions, runs>>

\* handle_login_if_required: the check of the URL after the scan
gate_url ==
    /\ ipc = "gate_url"
    /\ \E fault \in BOOLEAN, u \in URLs :
          IF fault
          THEN Return("navigate_failed") /\ UNCHANGED <<attempt, polls, login_slept>>
          ELSE IF OnSignin(u)
          THEN /\ ipc' = "login_wait"
               /\ attempt' = 0
               /\ polls' = 0
               /\ login_slept' = 0
               /\ exit_at' = exit_at
          ELSE /\ ipc' = "post_gate"
               /\ exit_at' = exit_at
               /\ UNCHANGED <<attempt, polls, login_slept>>
    /\ UNCHANGED <<product_gets, gate_checks, poll_faults, rufus_driver,
                   rufus_wait, results, questions, q_sel, insights, s_sel,
                   gate_clicks, login_outcome, open_sessions, runs>>

\* the condition of a poll: the URL left the auth path on the target domain,
\* or a logged-in element is shown (evaluated only when the URL test fails)
LoginDetected(u, el) == (~HasAp(u) /\ OnAmazonIn(u)) \/ el = "yes"

\* the poll raises: the URL cannot be read, or the element check raises
PollRaises(urlfault, u, el) ==
    urlfault \/ (~(~HasAp(u) /\ OnAmazonIn(u)) /\ el = "raise")

\* the sleep of one poll
PollSleep_settle_added(detected) ==
    IF detected THEN PollInterval + SettleDelay ELSE PollInterval

PollSleep(detected) == IF detected THEN SettleDelay ELSE PollInterval

\* one iteration of `for attempt in range(max_attempts)`
login_poll ==
    /\ ipc = "login_wait"
    /\ attempt < MaxAttempts
    /\ polls' = polls + 1
    /\ \E urlfault \in BOOLEAN, u \in URLs, el \in {"yes", "no", "raise"} :
          LET detected == ~PollRaises(urlfault, u, el) /\ LoginDetected(u, el)
          IN /\ login_slept' = login_slept + PollSleep(detected)
             /\ poll_faults' = IF PollRaises(urlfault, u, el)
                               THEN poll_faults + 1 ELSE poll_faults
             /\ IF detected
                THEN /\ ipc' = "post_gate"
                     /\ login_outcome' = "detected"
                     /\ attempt' = attempt
                ELSE /\ ipc' = ipc
                     /\ login_outcome' = login_outcome
                     /\ attempt' = attempt + 1
    /\ UNCHANGED <<product_gets, gate_checks, rufus_driver, rufus_wait,
                   results, questions, q_sel, insights, s_sel, gate_clicks,
                   exit_at, open_sessions, runs>>

\* the exhausted range taken as a failure of the navigation
login_timeout_aborts ==
    /\ ipc = "login_wait"
    /\ ~(attempt < MaxAttempts)
    /\ Return("navigate_failed")
    /\ login_outcome' = "timeout"
    /\ UNCHANGED <<product_gets, gate_checks, poll_faults, rufus_driver,
                   rufus_wait, results, attempt, questions, q_sel, insights,
                   s_sel, gate_clicks, polls, login_slept, open_sessions,
                   runs>>

\* the range is exhausted: the wait reports True all the same
login_timeout ==
    /\ ipc = "login_wait"
    /\ ~(attempt < MaxAttempts)
    /\ ipc' = "post_gate"
    /\ login_outcome' = "timeout"
    /\ UNCHANGED <<product_gets, gate_checks, poll_faults, rufus_driver,
                   rufus_wait, results, attempt, questions, q_sel, insights,
                   s_sel, gate_clicks, polls, login_slept, exit_at,
                   open_sessions, runs>>

\* navigate_to_product after the gate: the URL check, the second get when
\* the browser is neither on the product nor on an auth page, the wait for
\* the body.  fault: one of these raises, navigate_to_product returns False
post_gate ==
    /\ ipc = "post_gate"
    /\ \E fault \in BOOLEAN, u \in URLs :
          /\ product_gets' =
                IF ~OnProduct(u) /\ ~HasAp(u) THEN product_gets + 1 ELSE product_gets
          /\ IF fault THEN Return("navigate_failed")
             ELSE ipc' = "settle" /\ exit_at' = exit_at
    /\ attempt' = 0
    /\ gate_clicks' = 0
    /\ polls' = 0
    /\ poll_faults' = 0
    /\ login_slept' = 0
    /\ login_outcome' = "none"
    /\ UNCHANGED <<rufus_driver, rufus_wait, results, questions, q_sel,
                   insights, s_sel, gate_checks, open_sessions, runs>>

\* the settle delay before extraction; an exception here reaches the handler
\* of scrape_product_data, which records the key 'error'
settle ==
    /\ ipc = "settle"
    /\ \E fault \in BOOLEAN :
          IF fault
          THEN /\ results' = [results EXCEPT !.has_error = TRUE]
               /\ Return("exception")
               /\ UNCHANGED <<questions, q_sel>>
          ELSE /\ ipc' = "questions"
               /\ questions' = <<>>
               /\ q_sel' = 1
               /\ UNCHANGED <<results, exit_at>>
    /\ UNCHANGED <<product_gets, gate_checks, poll_faults, rufus_driver,
                   rufus_wait, attempt, insights, s_sel, gate_clicks, polls,
                   login_slept, login_outcome, open_sessions, runs>>

----------------------------------------------------------------------------
\* AmazonRufusScraper: extraction and aggregation

NumQuestionSelectors == 5   \* length of selectors in extract_rufus_questions
NumSummarySelectors == 3    \* length of summary_selectors
NumAspectSelectors == 3     \* length of aspect_selectors
FallbackMinLen == 10        \* 10 < len(text.strip())
FallbackMaxLen == 200       \* len(text.strip()) < 200
AspectMinLen == 2           \* len(aspect_text) > 2
Fallback == 0               \* selector_used of the fallback pass ('fallback')

MaxPills == 1               \* button-like elements a selector finds
MaxAspects == 1             \* aspect elements a selector finds

SeqsFrom0(S, n) == {<<>>} \cup SeqsUpTo(S, n)

\* A button-like element, by what the code asks of its text: whether it
\* contains '?', the length of the stripped text, whether it contains one of
\* the noise phrases
Pill(q, len, noise) == [q |-> q, len |-> len, noise |-> noise]
QQuestion == Pill(TRUE, 40, FALSE)
QPlain == Pill(FALSE, 40, FALSE)

ProductPills == {QQuestion, QPlain}
ProductPillMenu == SeqsFrom0(ProductPills, MaxPills)

\* `if text and '?' in text` of the scoped strategies
ScopedAccepts(el) == el.len > 0 /\ el.q

\* the filter with a closed length window
FallbackAccepts_inclusive(el) ==
    /\ el.len > 0
    /\ el.q
    /\ FallbackMinLen <= el.len
    /\ el.len <= FallbackMaxLen
    /\ ~el.noise

\* the filter of the fallback pass
FallbackAccepts(el) ==
    /\ el.len > 0
    /\ el.q
    /\ FallbackMinLen < el.len
    /\ el.len < FallbackMaxLen
    /\ ~el.noise

\* the entries a scoped selector appends for elements i..n, numbered by
\* enumerate(elements, 1)
RECURSIVE ScopedFrom(_, _, _, _)
ScopedFrom(els, i, n, sel) ==
    IF i > n THEN <<>>
    ELSE (IF ScopedAccepts(els[i])
          THEN <<[question_number |-> i, question_text |-> els[i],
                  selector_used |-> sel]>>
          ELSE <<>>) \o ScopedFrom(els, i + 1, n, sel)

\* the list after the fallback pass over els, numbered len(questions) + 1
RECURSIVE FallbackFrom(_, _)
FallbackFrom(els, acc) ==
    IF els = <<>> THEN acc
    ELSE FallbackFrom(Tail(els),
            IF FallbackAccepts(Head(els))
            THEN Append(acc, [question_number |-> Len(acc) + 1,
                              question_text |-> Head(els),
                              selector_used |-> Fallback])
            ELSE acc)

\* extract_rufus_questions: one iteration of `for selector in selectors`.
\* carousel: the wait for the carousel succeeds; fault_at = k > 0: reading
\* element k raises, the handler continues with the next selector
q_scoped(menu) ==
    /\ ipc = "questions"
    /\ q_sel <= NumQuestionSelectors
    /\ \E carousel \in BOOLEAN, els \in menu :
       \E fault_at \in 0..Len(els) :
          IF ~carousel
          THEN /\ fault_at = 0
               /\ q_sel' = q_sel + 1
               /\ questions' = questions
          ELSE LET n == IF fault_at = 0 THEN Len(els) ELSE fault_at - 1
                   qs == questions \o ScopedFrom(els, 1, n, q_sel)
               IN /\ questions' = qs
                  /\ q_sel' = IF fault_at = 0 /\ qs # <<>>
                              THEN NumQuestionSelectors + 1
                              ELSE q_sel + 1
    /\ UNCHANGED <<product_gets, gate_checks, poll_faults, rufus_driver,
                   rufus_wait, ipc, results, attempt, insights, s_sel,
                   gate_clicks, polls, login_slept, login_outcome, exit_at,
                   open_sessions, runs>>

\* scrape_product_data, lines `if questions:` ... append('rufus_questions')
WithQuestions(res, qs) ==
    IF qs # <<>>
    THEN [res EXCEPT !.rufus_questions = qs,
                     !.data_sources_found = Append(@, "rufus_questions")]
    ELSE res

\* extract_rufus_questions after the loop: the fallback pass when no scoped
\* strategy gave a question, the return, and the use of the list by
\* scrape_product_data.  fault: the fallback pass raises, the outer handler
\* returns []
q_finish_on(menu, fault_menu) ==
    /\ ipc = "questions"
    /\ q_sel > NumQuestionSelectors
    /\ \E els \in menu, fault \in fault_menu :
          LET qs == IF questions # <<>> THEN questions
                    ELSE IF fault THEN <<>>
                    ELSE FallbackFrom(els, <<>>)
          IN /\ (questions # <<>> => (els = <<>> /\ ~fault))
             /\ questions' = qs
             /\ results' = WithQuestions(results, qs)
    /\ ipc' = "summary"
    /\ s_sel' = 1
    /\ insights' = InitialInsights
    /\ UNCHANGED <<product_gets, gate_checks, poll_faults, rufus_driver,
                   rufus_wait, attempt, q_sel, gate_clicks, polls,
                   login_slept, login_outcome, exit_at, open_sessions, runs>>

q_finish(menu) == q_finish_on(menu, BOOLEAN)

\* what a summary selector can find
SummaryMenu ==
    {ElemAbsent, ElemText(<<>>), ElemText(<<SP>>), ElemText(<<SP, "s">>),
     ElemText(<<"u">>)}

\* the iteration without its `break`: a later selector overrides an earlier one
summary_step_no_break(menu) ==
    /\ ipc = "summary"
    /\ s_sel <= NumSummarySelectors
    /\ \E e \in menu :
          /\ insights' = IF e.present /\ strip(e.raw) # <<>>
                         THEN [insights EXCEPT !.customers_say_summary = strip(e.raw)]
                         ELSE insights
          /\ ipc' = IF s_sel = NumSummarySelectors THEN "aspects" ELSE ipc
          /\ s_sel' = IF s_sel = NumSummarySelectors THEN 1 ELSE s_sel + 1
    /\ UNCHANGED <<product_gets, gate_checks, poll_faults, rufus_driver,
                   rufus_wait, results, attempt, questions, q_sel,
                   gate_clicks, polls, login_slept, login_outcome, exit_at,
                   open_sessions, runs>>

\* extract_customer_insights: one iteration of `for selector in summary_selectors`
summary_step(menu) ==
    /\ ipc = "summary"
    /\ s_sel <= NumSummarySelectors
    /\ \E e \in menu :
          IF e.present /\ strip(e.raw) # <<>>
          THEN /\ insights' = [insights EXCEPT !.customers_say_summary = strip(e.raw)]
               /\ ipc' = "aspects"
               /\ s_sel' = 1
          ELSE /\ insights' = insights
               /\ ipc' = IF s_sel = NumSummarySelectors THEN "aspects" ELSE ipc
               /\ s_sel' = IF s_sel = NumSummarySelectors THEN 1 ELSE s_sel + 1
    /\ UNCHANGED <<product_gets, gate_checks, poll_faults, rufus_driver,
                   rufus_wait, results, attempt, questions, q_sel,
                   gate_clicks, polls, login_slept, login_outcome, exit_at,
                   open_sessions, runs>>

\* An aspect element: its text and the fill colour of its icon ("orange" is
\* #DE7921, "nosvg": the icon lookup raises)
Aspect(raw, fill) == [raw |-> raw, fill |-> fill]
APositive == Aspect(<<"f", "i", "t">>, "other")
ANegative == Aspect(<<"s", "i", "z", "e">>, "orange")
AShort == Aspect(<<SP, "o", "k">>, "nosvg")

AspectKinds == {APositive, ANegative, AShort}
AspectMenu == SeqsFrom0(AspectKinds, MaxAspects)

\* `if aspect_text and len(aspect_text) > 2`
AspectAccepts(el) == Len(strip(el.raw)) > AspectMinLen

RECURSIVE AspectsFrom(_, _, _, _)
AspectsFrom(els, i, n, sel) ==
    IF i > n THEN <<>>
    ELSE (IF AspectAccepts(els[i])
          THEN <<[aspect_number |-> i,
                  aspect_text |-> strip(els[i].raw),
                  sentiment |-> IF els[i].fill = "orange" THEN "negative" ELSE "positive",
                  selector_used |-> sel]>>
          ELSE <<>>) \o AspectsFrom(els, i + 1, n, sel)

\* extract_customer_insights: one iteration of `for selector in aspect_selectors`
aspect_step(menu) ==
    /\ ipc = "aspects"
    /\ s_sel <= NumAspectSelectors
    /\ \E els \in menu :
       \E fault_at \in 0..Len(els) :
          LET n == IF fault_at = 0 THEN Len(els) ELSE fault_at - 1
              as == insights.aspects \o AspectsFrom(els, 1, n, s_sel)
          IN /\ insights' = [insights EXCEPT !.aspects = as]
             /\ s_sel' = IF fault_at = 0 /\ as # <<>>
                         THEN NumAspectSelectors + 1
                         ELSE s_sel + 1
    /\ UNCHANGED <<product_gets, gate_checks, poll_faults, rufus_driver,
                   rufus_wait, ipc, results, attempt, questions, q_sel,
                   gate_clicks, polls, login_slept, login_outcome, exit_at,
                   open_sessions, runs>>

\* `if insights['customers_say_summary'] or insights['aspects']`
InsightsFound_summary_only(ins) == ins.customers_say_summary # <<>>

InsightsFound(ins) == ins.customers_say_summary # <<>> \/ ins.aspects # <<>>

\* `if results['data_sources_found']: results['success'] = True`
SuccessVerdict_always(found) == TRUE

SuccessVerdict(found) == found # <<>>

\* scrape_product_data after extract_customer_insights returned
finalize ==
    /\ ipc = "aspects"
    /\ s_sel > NumAspectSelectors
    /\ LET r1 == IF InsightsFound(insights)
                 THEN [results EXCEPT !.customer_insights = insights,
                                      !.data_sources_found = Append(@, "customer_insights")]
                 ELSE results
       IN results' = [r1 EXCEPT !.success =
                         IF SuccessVerdict(r1.data_sources_found) THEN TRUE ELSE @]
    /\ Return("completed")
    /\ UNCHANGED <<product_gets, gate_checks, poll_faults, rufus_driver,
                   rufus_wait, attempt, questions, q_sel, insights, s_sel,
                   gate_clicks, polls, login_slept, login_outcome,
                   open_sessions, runs>>

\* scrape_product_data on a fresh scraper
ReviewsIdle ==
    /\ driver = "None"
    /\ wait = "None"
    /\ pc = "idle"
    /\ max_pages = 0
    /\ page = 0
    /\ review_elements = <<>>
    /\ elem_idx = 0
    /\ reviews_data = <<>>
    /\ ret = <<>>
    /\ site_pages = 0
    /\ start_outcome = "none"
    /\ navs = 0
    /\ cycles = 0
    /\ probes = 0
    /\ clicks = 0
    /\ origin = <<>>
    /\ seen = <<>>
    /\ faults = 0
    /\ last_ctl = "none"
    /\ stop = "none"

InitProduct ==
    /\ ReviewsIdle
    /\ InsightsIdle
    /\ LifecycleIdle
    /\ DomIdle
    /\ ExtractIdle
    /\ OrchestratorIdle
    /\ UrlIdle

NextProduct ==
    \/ rufus_start_driver /\ UNCHANGED <<rvars, lvars, uvars, dvars, evars, ovars>>
    \/ product_get /\ UNCHANGED <<rvars, lvars, uvars, dvars, evars, ovars>>
    \/ gate_scan /\ UNCHANGED <<rvars, lvars, uvars, dvars, evars, ovars>>
    \/ gate_url /\ UNCHANGED <<rvars, lvars, uvars, dvars, evars, ovars>>
    \/ login_poll /\ UNCHANGED <<rvars, lvars, uvars, dvars, evars, ovars>>
    \/ login_timeout /\ UNCHANGED <<rvars, lvars, uvars, dvars, evars, ovars>>
    \/ post_gate /\ UNCHANGED <<rvars, lvars, uvars, dvars, evars, ovars>>
    \/ settle /\ UNCHANGED <<rvars, lvars, uvars, dvars, evars, ovars>>
    \/ q_scoped(ProductPillMenu) /\ UNCHANGED <<rvars, lvars, uvars, dvars, evars, ovars>>
    \/ q_finish(ProductPillMenu) /\ UNCHANGED <<rvars, lvars, uvars, dvars, evars, ovars>>
    \/ summary_step(SummaryMenu) /\ UNCHANGED <<rvars, lvars, uvars, dvars, evars, ovars>>
    \/ aspect_step(AspectMenu) /\ UNCHANGED <<rvars, lvars, uvars, dvars, evars, ovars>>
    \/ finalize /\ UNCHANGED <<rvars, lvars, uvars, dvars, evars, ovars>>

SpecProduct == InitProduct /\ [][NextProduct]_vars

----------------------------------------------------------------------------
\* One AmazonRufusScraper used for several scrape_product_data calls, with
\* close() between or after them

MaxRuns == 1            \* scrape_product_data calls after the first

\* the caller calls scrape_product_data again: the locals start afresh, the
\* object keeps its fields
product_again ==
    /\ ipc = "done"
    /\ runs < MaxRuns
    /\ runs' = runs + 1
    /\ ipc' = "idle"
    /\ results' = InitialResults
    /\ attempt' = 0
    /\ questions' = <<>>
    /\ q_sel' = 0
    /\ insights' = InitialInsights
    /\ s_sel' = 0
    /\ product_gets' = 0
    /\ gate_checks' = 0
    /\ poll_faults' = 0
    /\ gate_clicks' = 0
    /\ polls' = 0
    /\ login_slept' = 0
    /\ login_outcome' = "none"
    /\ exit_at' = "none"
    /\ UNCHANGED <<rufus_driver, rufus_wait, open_sessions>>

\* AmazonRufusScraper.close: quit() on the handle the object holds
rufus_close ==
    /\ ipc = "done"
    /\ rufus_driver # "None"
    /\ rufus_driver' = "quit"
    /\ open_sessions' = IF rufus_driver = "open" THEN open_sessions - 1
                        ELSE open_sessions
    /\ UNCHANGED <<rufus_wait, ipc, results, attempt, questions, q_sel,
                   insights, s_sel, product_gets, gate_checks, poll_faults,
                   gate_clicks, polls, login_slept, login_outcome, exit_at,
                   runs>>

NextProductAgain ==
    \/ NextProduct
    \/ product_again /\ UNCHANGED <<rvars, lvars, uvars, dvars, evars, ovars>>
    \/ rufus_close /\ UNCHANGED <<rvars, lvars, uvars, dvars, evars, ovars>>

SpecProductAgain == InitProduct /\ [][NextProductAgain]_vars

----------------------------------------------------------------------------
\* extract_customer_insights on a given page: the summary selectors are tried
\* against what the page holds for each of them

SummaryPages == [1..NumSummarySelectors -> SummaryMenu]

\* scrape_product_data at the call of an extraction function: the session is
\* up, the page is loaded, nothing has been extracted
AtExtraction(where) ==
    /\ rufus_driver = "open"
    /\ rufus_wait = "set"
    /\ ipc = where
    /\ results = InitialResults
    /\ attempt = 0
    /\ questions = <<>>
    /\ insights = InitialInsights
    /\ product_gets = 1
    /\ gate_checks = 1
    /\ poll_faults = 0
    /\ open_sessions = 1
    /\ runs = 0
    /\ gate_clicks = 0
    /\ polls = 0
    /\ login_slept = 0
    /\ login_outcome = "none"
    /\ exit_at = "none"

InitSummary ==
    /\ ReviewsIdle
    /\ LifecycleIdle
    /\ UrlIdle
    /\ ExtractIdle
    /\ OrchestratorIdle
    /\ AtExtraction("summary")
    /\ q_sel = NumQuestionSelectors + 1
    /\ s_sel = 1
    /\ dom_summary \in SummaryPages
    /\ dom_fallback = <<>>

NextSummary ==
    /\ ipc = "summary"
    /\ summary_step({dom_summary[s_sel]})
    /\ UNCHANGED <<rvars, lvars, uvars, dvars, evars, ovars>>

SpecSummary == InitSummary /\ [][NextSummary]_vars

----------------------------------------------------------------------------
\* extract_review_data called on one container, for every shape of its
\* sub-elements

\* texts a located sub-element can carry: empty, blank, plain, padded
FieldTexts == {<<>>, <<SP>>, Txt, <<SP, "t", SP>>}
FieldMenu == {ElemAbsent} \cup {ElemText(r) : r \in FieldTexts}
ShortFieldMenu == {ElemAbsent, ElemText(<<>>), ElemText(Txt)}

\* class attributes of the rating element: whole stars, a half-star token,
\* a token that is no digit, no marker, a bare marker, no attribute at all
RatingMenu ==
    {RatingAbsent,
     [present |-> TRUE, hasClass |-> FALSE, cls |-> <<>>],
     RatingClass(<<"x", SP, STAR, "5", SP, "x">>),
     RatingClass(<<STAR, "1">>),
     RatingClass(<<"x", SP, STAR, "4", "-", "5", SP, "x">>),
     RatingClass(<<STAR, "m">>),
     RatingClass(<<"x">>),
     RatingClass(<<"x", SP, STAR>>)}

ExtractMenu ==
    [stale : BOOLEAN, title : FieldMenu, rating : RatingMenu,
     text : FieldMenu, author : ShortFieldMenu, date : ShortFieldMenu,
     verified : BOOLEAN, helpful : {ElemAbsent, ElemText(<<"2">>)}]

InitExtract ==
    /\ ReviewsIdle
    /\ InsightsIdle
    /\ LifecycleIdle
    /\ UrlIdle
    /\ DomIdle
    /\ OrchestratorIdle
    /\ container \in ExtractMenu
    /\ record = Pending

extract_one ==
    /\ record = Pending
    /\ record' = extract_review_data(container)
    /\ UNCHANGED container

NextExtract ==
    /\ extract_one
    /\ UNCHANGED <<rvars, ivars, lvars, uvars, dvars, ovars>>

SpecExtract == InitExtract /\ [][NextExtract]_vars

----------------------------------------------------------------------------
\* extract_rufus_questions on a page whose unscoped buttons are given

MaxScopedPills == 2     \* elements a scoped selector finds
MaxFallbackPills == 1   \* elements the unscoped selector finds

ScopedPillMenu == SeqsFrom0(ProductPills, MaxScopedPills)

\* unscoped buttons: texts at and next to both ends of the length window, a
\* text without '?', a text with a noise phrase
FallbackPills ==
    {Pill(TRUE, FallbackMinLen, FALSE), Pill(TRUE, FallbackMinLen + 1, FALSE),
     Pill(TRUE, FallbackMaxLen - 1, FALSE), Pill(TRUE, FallbackMaxLen, FALSE),
     Pill(FALSE, 40, FALSE), Pill(TRUE, 40, TRUE)}

\* what the unscoped find_elements does: it raises, or it gives els
FallbackPages ==
    [raises : BOOLEAN, els : SeqsFrom0(FallbackPills, MaxFallbackPills)]

InitQuestions ==
    /\ ReviewsIdle
    /\ LifecycleIdle
    /\ UrlIdle
    /\ ExtractIdle
    /\ OrchestratorIdle
    /\ AtExtraction("questions")
    /\ q_sel = 1
    /\ s_sel = 0
    /\ dom_summary = <<>>
    /\ dom_fallback \in FallbackPages

\* the fallback pass reads the page only when no scoped entry was collected
q_finish_page ==
    IF questions # <<>>
    THEN q_finish_on({<<>>}, {FALSE})
    ELSE q_finish_on({dom_fallback.els}, {dom_fallback.raises})

NextQuestions ==
    \/ q_scoped(ScopedPillMenu) /\ UNCHANGED <<rvars, lvars, uvars, dvars, evars, ovars>>
    \/ q_finish_page /\ UNCHANGED <<rvars, lvars, uvars, dvars, evars, ovars>>

SpecQuestions == InitQuestions /\ [][NextQuestions]_vars

----------------------------------------------------------------------------
\* automated_scrape_and_analyze (rufus_img_gen.py with the insights step,
\* static_image_gen.py without it).  The scrapers are seen from outside: what
\* a call leaves in self.driver and what it returns or raises.

Variants == {"rufus_img_gen", "static_image_gen"}
MaxYield == 2           \* largest number of records a scrape returns

\* files_to_check: three files with the insights step, two without
NumFiles == IF variant = "rufus_img_gen" THEN 3 ELSE 2

\* one stage as the function saw it: raised, or the amount of data returned
\* (for the insights run: the number of data sources, success iff n > 0)
Entry(s, raised, n) == [stage |-> s, raised |-> raised, n |-> n]

InitOrchestrate ==
    /\ ReviewsIdle
    /\ InsightsIdle
    /\ LifecycleIdle
    /\ UrlIdle
    /\ DomIdle
    /\ ExtractIdle
    /\ variant \in Variants
    /\ stage = "idle"
    /\ rufus_scraper = "None"
    /\ reviews_scraper = "None"
    /\ exit_path = "none"
    /\ stage_log = <<>>
    /\ file_idx = 0
    /\ returned = "none"

\* the lines before the first scraping step
orch_begin ==
    /\ stage = "idle"
    /\ stage' = IF variant = "rufus_img_gen" THEN "insights" ELSE "mine"
    /\ UNCHANGED <<variant, rufus_scraper, reviews_scraper, exit_path,
                   stage_log, file_idx, returned>>

\* a `return None` or an exception inside a try block: the finally clause
\* runs next, the return is pending
LeaveTry(how, clause) ==
    /\ exit_path' = how
    /\ stage' = clause

\* rufus_scraper.scrape_product_data(product_url) and `if rufus_results
\* ['success']`.  The call never raises; browser tells whether start_driver
\* got as far as creating the browser; sources is the number of data sources
insights_scrape ==
    /\ stage = "insights"
    /\ \E browser \in BOOLEAN, sources \in 0..2 :
          /\ ~browser => sources = 0
          /\ rufus_scraper' = IF browser THEN "open" ELSE "None"
          /\ stage_log' = Append(stage_log, Entry("insights", FALSE, sources))
          /\ IF sources > 0
             THEN stage' = "insights_save" /\ exit_path' = exit_path
             ELSE LeaveTry("no_data", "insights_finally")
    /\ UNCHANGED <<variant, reviews_scraper, file_idx, returned>>

\* rufus_scraper.save_to_txt(...): it catches its own errors and returns
\* None, so the try block is left normally either way
insights_save ==
    /\ stage = "insights_save"
    /\ stage' = "insights_finally"
    /\ UNCHANGED <<variant, rufus_scraper, reviews_scraper, exit_path,
                   stage_log, file_idx, returned>>

\* `return None` after the finally clause of a step
ReturnNone ==
    /\ stage' = "returned"
    /\ returned' = "None"

\* finally: rufus_scraper.close()
insights_finally ==
    /\ stage = "insights_finally"
    /\ rufus_scraper' = IF rufus_scraper # "None" THEN "quit" ELSE rufus_scraper
    /\ IF exit_path # "none" THEN ReturnNone
       ELSE stage' = "mine" /\ returned' = returned
    /\ UNCHANGED <<variant, reviews_scraper, exit_path, stage_log, file_idx>>

\* my_reviews = reviews_scraper.scrape_reviews(my_product_id, True, 10) and
\* `if my_reviews`.  The first call starts the session: start_driver raises
\* when the browser cannot be created (no handle) or when the script
\* injection fails (the handle is set)
mine_scrape_ungated ==
    /\ stage = "mine"
    /\ \E o \in {"chrome_fail", "script_fail", "returned"}, n \in 0..MaxYield :
          /\ o # "returned" => n = 0
          /\ reviews_scraper' = IF o = "chrome_fail" THEN "None" ELSE "open"
          /\ stage_log' = Append(stage_log, Entry("mine", o # "returned", n))
          /\ IF o # "returned" THEN LeaveTry("exception", "reviews_finally")
             ELSE stage' = "mine_save" /\ exit_path' = exit_path
    /\ UNCHANGED <<variant, rufus_scraper, file_idx, returned>>

mine_scrape ==
    /\ stage = "mine"
    /\ \E o \in {"chrome_fail", "script_fail", "returned"}, n \in 0..MaxYield :
          /\ o # "returned" => n = 0
          /\ reviews_scraper' = IF o = "chrome_fail" THEN "None" ELSE "open"
          /\ stage_log' = Append(stage_log, Entry("mine", o # "returned", n))
          /\ IF o # "returned" THEN LeaveTry("exception", "reviews_finally")
             ELSE IF n = 0 THEN LeaveTry("no_data", "reviews_finally")
             ELSE stage' = "mine_save" /\ exit_path' = exit_path
    /\ UNCHANGED <<variant, rufus_scraper, file_idx, returned>>

\* the stage whose save_to_csv raised counts as raised
MarkRaised(log) == [log EXCEPT ![Len(log)].raised = TRUE]

\* reviews_scraper.save_to_csv(...): opening or writing the file can raise
SaveCsv(then) ==
    \E ok \in BOOLEAN :
       IF ok THEN /\ stage' = then
                  /\ UNCHANGED <<exit_path, stage_log>>
       ELSE /\ LeaveTry("exception", "reviews_finally")
            /\ stage_log' = MarkRaised(stage_log)

mine_save ==
    /\ stage = "mine_save"
    /\ SaveCsv("competitor")
    /\ UNCHANGED <<variant, rufus_scraper, reviews_scraper, file_idx, returned>>

\* competitor_reviews = reviews_scraper.scrape_reviews(competitor_product_id,
\* False, 10): self.driver is set, no session is started, every failure
\* inside the walk is a returned list
competitor_scrape ==
    /\ stage = "competitor"
    /\ \E n \in 0..MaxYield :
          /\ stage_log' = Append(stage_log, Entry("competitor", FALSE, n))
          /\ IF n = 0 THEN LeaveTry("no_data", "reviews_finally")
             ELSE stage' = "competitor_save" /\ exit_path' = exit_path
    /\ UNCHANGED <<variant, rufus_scraper, reviews_scraper, file_idx, returned>>

competitor_save ==
    /\ stage = "competitor_save"
    /\ SaveCsv("reviews_finally")
    /\ UNCHANGED <<variant, rufus_scraper, reviews_scraper, file_idx, returned>>

\* close_driver placed after the try statement instead of in its finally
\* clause: an early return skips it
reviews_finally_after_try ==
    /\ stage = "reviews_finally"
    /\ reviews_scraper' = IF reviews_scraper # "None" /\ exit_path = "none"
                          THEN "quit" ELSE reviews_scraper
    /\ IF exit_path # "none"
       THEN ReturnNone /\ file_idx' = file_idx
       ELSE stage' = "files" /\ file_idx' = 1 /\ returned' = returned
    /\ UNCHANGED <<variant, rufus_scraper, exit_path, stage_log>>

\* finally: reviews_scraper.close_driver()
reviews_finally ==
    /\ stage = "reviews_finally"
    /\ reviews_scraper' = IF reviews_scraper # "None" THEN "quit"
                          ELSE reviews_scraper
    /\ IF exit_path # "none"
       THEN ReturnNone /\ file_idx' = file_idx
       ELSE stage' = "files" /\ file_idx' = 1 /\ returned' = returned
    /\ UNCHANGED <<variant, rufus_scraper, exit_path, stage_log>>

\* one iteration of `for file_path, file_desc in files_to_check`; exists is
\* what os.path.exists answers at that moment
files_check ==
    /\ stage = "files"
    /\ \E exists \in BOOLEAN :
          IF ~exists
          THEN /\ ReturnNone
               /\ exit_path' = "missing_file"
               /\ file_idx' = file_idx
          ELSE /\ exit_path' = exit_path
               /\ returned' = returned
               /\ IF file_idx = NumFiles
                  THEN stage' = "analysis" /\ file_idx' = file_idx
                  ELSE stage' = stage /\ file_idx' = file_idx + 1
    /\ UNCHANGED <<variant, rufus_scraper, reviews_scraper, stage_log>>

\* the analysis call in its try block: the result is returned, or the
\* handler returns None
analysis ==
    /\ stage = "analysis"
    /\ \E ok \in BOOLEAN :
          /\ stage_log' = Append(stage_log, Entry("analysis", ~ok, IF ok THEN 1 ELSE 0))
          /\ exit_path' = IF ok THEN "result" ELSE "exception"
          /\ returned' = IF ok THEN "result" ELSE "None"
    /\ stage' = "returned"
    /\ UNCHANGED <<variant, rufus_scraper, reviews_scraper, file_idx>>

NextOrchestrate ==
    \/ orch_begin /\ UNCHANGED <<rvars, ivars, lvars, uvars, dvars, evars>>
    \/ insights_scrape /\ UNCHANGED <<rvars, ivars, lvars, uvars, dvars, evars>>
    \/ insights_save /\ UNCHANGED <<rvars, ivars, lvars, uvars, dvars, evars>>
    \/ insights_finally /\ UNCHANGED <<rvars, ivars, lvars, uvars, dvars, evars>>
    \/ mine_scrape /\ UNCHANGED <<rvars, ivars, lvars, uvars, dvars, evars>>
    \/ mine_save /\ UNCHANGED <<rvars, ivars, lvars, uvars, dvars, evars>>
    \/ competitor_scrape /\ UNCHANGED <<rvars, ivars, lvars, uvars, dvars, evars>>
    \/ competitor_save /\ UNCHANGED <<rvars, ivars, lvars, uvars, dvars, evars>>
    \/ reviews_finally /\ UNCHANGED <<rvars, ivars, lvars, uvars, dvars, evars>>
    \/ files_check /\ UNCHANGED <<rvars, ivars, lvars, uvars, dvars, evars>>
    \/ analysis /\ UNCHANGED <<rvars, ivars, lvars, uvars, dvars, evars>>

SpecOrchestrate == InitOrchestrate /\ [][NextOrchestrate]_vars

----------------------------------------------------------------------------
\* get_reviews_url.  A URL is a sequence of parts: the prefix, the characters
\* of the product id, the reference path, and the query parameters as
\* name, value pairs of symbols

MaxIdLen == 3            \* longest product id
IdChars == {"B", "0", "X"}
ProductIds == SeqsUpTo(IdChars, MaxIdLen)

\* the copy that ignores is_my_product
get_reviews_url_always_positive(pid, mine) ==
    <<"https://www.amazon.com/product-reviews/">> \o pid \o
    <<"/ref=cm_cr_dp_d_show_all_btm", "?ie=", "UTF8",
      "&reviewerType=", "all_reviews", "&filterByStar=", "positive">>

\* src/scraping_final.py
get_reviews_url(pid, mine) ==
    IF mine
    THEN <<"https://www.amazon.com/product-reviews/">> \o pid \o
         <<"/ref=cm_cr_dp_d_show_all_btm", "?ie=", "UTF8",
           "&reviewerType=", "all_reviews", "&filterByStar=", "positive">>
    ELSE <<"https://www.amazon.com/product-reviews/">> \o pid \o
         <<"/ref=cm_cr_dp_d_show_all_btm", "?ie=", "UTF8",
           "&reviewerType=", "all_reviews", "&filterByStar=", "critical">>

\* src/combined.py
combined_get_reviews_url(pid, mine) ==
    IF mine
    THEN <<"https://www.amazon.in/product-reviews/">> \o pid \o
         <<"/ref=cm_cr_arp_d_viewopt_sr", "?ie=", "UTF8",
           "&reviewerType=", "all_reviews", "&filterByStar=", "positive",
           "&pageNumber=", "1">>
    ELSE <<"https://www.amazon.in/product-reviews/">> \o pid \o
         <<"/ref=cm_cr_arp_d_viewopt_sr", "?ie=", "UTF8",
           "&reviewerType=", "all_reviews", "&filterByStar=", "critical",
           "&pageNumber=", "1">>

InitUrl ==
    /\ ReviewsIdle
    /\ InsightsIdle
    /\ LifecycleIdle
    /\ DomIdle
    /\ ExtractIdle
    /\ OrchestratorIdle
    /\ module \in {"scraping_final", "combined"}
    /\ product_id \in ProductIds
    /\ is_my_product \in BOOLEAN
    /\ reviews_url = <<>>

\* reviews_url = self.get_reviews_url(product_id, is_my_product)
build_reviews_url ==
    /\ reviews_url = <<>>
    /\ reviews_url' = IF module = "scraping_final"
                      THEN get_reviews_url(product_id, is_my_product)
                      ELSE combined_get_reviews_url(product_id, is_my_product)
    /\ UNCHANGED <<module, product_id, is_my_product>>

NextUrl == build_reviews_url /\ UNCHANGED <<rvars, ivars, lvars, dvars, evars, ovars>>

SpecUrl == InitUrl /\ [][NextUrl]_vars

----------------------------------------------------------------------------
\* Helpers of the properties

\* the records a list of containers contributes, in order
RECURSIVE ExtractAll(_)
ExtractAll(els) ==
    IF els = <<>> THEN <<>>
    ELSE LET rd == extract_review_data(Head(els))
         IN (IF rd = NoneVal THEN <<>> ELSE <<rd>>) \o ExtractAll(Tail(els))

\* the records of a sequence of pages, page after page
RECURSIVE RunRecords(_)
RunRecords(pages) ==
    IF pages = <<>> THEN <<>>
    ELSE ExtractAll(Head(pages)) \o RunRecords(Tail(pages))

StartFailed == start_outcome \in {"chrome_fail", "script_fail"}

\* every page shown so far had r containers, all of them extractable
UniformSite(r) ==
    \A p \in 1..Len(seen) :
        /\ Len(seen[p]) = r
        /\ \A i \in 1..r : ~ExtractionFails(seen[p][i])

\* positions of reviews_data that come from the current page
PageOrigins == {j \in 1..Len(origin) : origin[j][1] = page}

\* containers of the current page already visited whose extraction did not fail
Extracted == {i \in 1..elem_idx : ~ExtractionFails(review_elements[i])}

----------------------------------------------------------------------------
\* C1: one scrape_reviews call performs at most max_pages harvest cycles and
\* never probes or clicks the "next" control after harvesting page max_pages,
\* so at most max_pages - 1 probes and clicks occur, whatever the site offers.
C1_PaginationCap ==
    /\ cycles <= max_pages
    /\ clicks <= probes
    /\ probes <= IF max_pages = 0 THEN 0 ELSE max_pages - 1
    /\ probes <= cycles

C1_Witness ==
    /\ pc = "done"
    /\ stop = "capped"
    /\ max_pages = 2
    /\ site_pages = 3
    /\ cycles = 2
    /\ clicks = 1

\* C2: when the "next" control is absent or disabled after harvesting page
\* k < max_pages, the walk stops at page k and returns the records of all
\* pages 1..k.
C2_Exhaustion ==
    last_ctl \in {"absent", "disabled"} =>
        /\ pc = "done"
        /\ stop = "exhausted"
        /\ page < max_pages
        /\ Len(seen) = page
        /\ cycles = page
        /\ ret = RunRecords(seen)

C2_Witness ==
    /\ last_ctl = "disabled"
    /\ pc = "done"
    /\ page = 2
    /\ max_pages = 3
    /\ Len(ExtractAll(seen[1])) >= 1
    /\ Len(ExtractAll(seen[2])) >= 1
    /\ Len(ret) = Len(ExtractAll(seen[1])) + Len(ExtractAll(seen[2]))

\* C3: during the harvest of a page, the records taken from the page are
\* exactly those of the visited containers whose extraction did not fail:
\* a failing container is skipped and takes no other record with it.
C3_Isolation ==
    pc = "harvest" =>
        /\ Len(origin) = Len(reviews_data)
        /\ {origin[j][2] : j \in PageOrigins} = Extracted
        /\ Cardinality(PageOrigins) = Cardinality(Extracted)

C3_Witness ==
    /\ pc = "harvest"
    /\ elem_idx = 2
    /\ review_elements = <<Stale, Rated5>>
    /\ Cardinality(PageOrigins) = 1

\* C4: once the session has started, whatever ends the walk (a timeout of
\* the content wait on page k, an exception in navigation, the wait or the
\* click), scrape_reviews returns the records accumulated so far, those of
\* all harvested pages; a page that timed out is not harvested, and no
\* exception escapes.
C4_PartialProgress ==
    start_outcome = "ok" =>
        /\ pc # "raised"
        /\ pc = "done" =>
              /\ ret = reviews_data
              /\ ret = RunRecords(seen)
        /\ (pc = "done" /\ stop = "timeout") =>
              /\ Len(seen) = page - 1
              /\ cycles = page - 1

C4_Witness ==
    /\ pc = "done"
    /\ stop = "error"
    /\ clicks = 2
    /\ page = 2
    /\ ret # <<>>

\* C5 as stated: when the session fails to start, scrape_reviews returns
\* (rather than raises) an empty list without navigating.
C5_ReturnsOnStartFailure ==
    StartFailed => (pc = "done" /\ ret = <<>> /\ navs = 0)

\* C5 amended: when the session fails to start, scrape_reviews raises the
\* start error to its caller: it never returns, holds no records, and no
\* navigation is attempted.
C5_RaisesOnStartFailure ==
    StartFailed => (pc = "raised" /\ reviews_data = <<>> /\ navs = 0)

C5_Witness ==
    /\ start_outcome = "chrome_fail"
    /\ pc = "raised"
    /\ driver = "None"

\* C6: on a site of site_pages pages of r extractable records each, with no
\* browser fault, scrape_reviews with max_pages <= site_pages harvests
\* exactly max_pages pages, returns max_pages * r records and ends capped.
C6_CappedCount ==
    (pc = "done" /\ start_outcome = "ok" /\ faults = 0 /\ max_pages <= site_pages) =>
        /\ stop = "capped"
        /\ Len(seen) = max_pages
        /\ \A r \in 1..(MaxWalkContainers + 1) :
              UniformSite(r) => Len(ret) = max_pages * r

C6_Witness ==
    /\ pc = "done"
    /\ faults = 0
    /\ max_pages = 2
    /\ site_pages = 3
    /\ UniformSite(2)
    /\ Len(ret) = 4
    /\ stop = "capped"

\* the class of the rating element carries a token a-star-<N>
HasStarToken(r) ==
    /\ r.present
    /\ r.hasClass
    /\ \E i \in 1..(Len(r.cls) - 1) : r.cls[i] = STAR /\ r.cls[i + 1] \in Digits

\* C7 as stated: the harvest of a page yields one record per container whose
\* sub-elements can be read; a container whose rating element is absent or
\* whose rating class carries no a-star-<N> token yields a record with rating
\* "N/A", it is not dropped.
C7_RecordPerContainer ==
    pc = "done" =>
        \A i \in 1..Len(review_elements) :
            ~review_elements[i].stale =>
                \E j \in 1..Len(ret) :
                    /\ origin[j] = <<1, i>>
                    /\ ~HasStarToken(review_elements[i].rating) => ret[j].rating = NA

Tags == {results.data_sources_found[i] : i \in 1..Len(results.data_sources_found)}

\* C8: in every result scrape_product_data returns, success is true exactly
\* when data_sources_found is non-empty; a run that extracted and found no
\* data returns success = false without the key 'error'.
C8_SuccessIffSources ==
    ipc = "done" =>
        /\ results.success <=> (results.data_sources_found # <<>>)
        /\ (exit_at = "completed" /\ results.data_sources_found = <<>>) =>
              (~results.success /\ ~results.has_error)

C8_Witness ==
    /\ ipc = "done"
    /\ exit_at = "completed"
    /\ results.data_sources_found = <<>>
    /\ ~results.success
    /\ ~results.has_error

\* C9: in every result, the tag 'rufus_questions' is present iff the returned
\* question list is non-empty, and the tag 'customer_insights' is present iff
\* the summary is non-empty or an aspect was found; a page that yields no
\* question but a summary gives success, data_sources_found =
\* ['customer_insights'] and an empty question list.
C9_TagsMatchData ==
    ipc = "done" =>
        /\ ("rufus_questions" \in Tags) <=> (results.rufus_questions # <<>>)
        /\ results.rufus_questions = questions
        /\ ("customer_insights" \in Tags) <=>
              (insights.customers_say_summary # <<>> \/ insights.aspects # <<>>)
        /\ results.customer_insights =
              IF "customer_insights" \in Tags THEN insights ELSE EmptyDict
        /\ (exit_at = "completed" /\ questions = <<>>
                /\ insights.customers_say_summary # <<>>) =>
              /\ results.success
              /\ results.data_sources_found = <<"customer_insights">>
              /\ results.rufus_questions = <<>>

C9_Witness ==
    /\ ipc = "done"
    /\ exit_at = "completed"
    /\ results.rufus_questions = <<>>
    /\ insights.customers_say_summary = <<"s">>
    /\ insights.aspects = <<>>
    /\ results.success
    /\ results.data_sources_found = <<"customer_insights">>

\* C10: wait_for_login_completion makes at most MaxAttempts polls, whether
\* or not completion is detected, and its sleeps add up to at most
\* MaxAttempts * PollInterval seconds, the settle delay of a detection on the
\* last attempt included.
C10_LoginWaitBound ==
    /\ polls <= MaxAttempts
    /\ attempt <= MaxAttempts
    /\ login_slept <= MaxAttempts * PollInterval
    /\ login_outcome = "timeout" => polls = MaxAttempts

C10_Witness ==
    /\ ipc = "post_gate"
    /\ login_outcome = "detected"
    /\ polls = MaxAttempts
    /\ login_slept = MaxAttempts * PollInterval

\* C11: close_driver() never raises, before any start, after one call or
\* after several; called before a session exists it does nothing, and called
\* on a closed session it leaves the scraper (its fields, the browser, the
\* state of a running call) exactly as the first call left it.
C11_CloseIdempotent ==
    [][closes' = closes + 1 =>
          /\ ~close_raised'
          /\ UNCHANGED <<wait, pc, page, reviews_data, ret>>
          /\ driver = "None" => (driver' = "None" /\ quits' = quits)
          /\ driver # "None" => driver' = "quit"]_vars

C11_Witness ==
    /\ closes = 2
    /\ quits = 2
    /\ driver = "quit"
    /\ ~close_raised

\* C12 as stated: a scrape_reviews call that runs on a closed session (closed
\* before the call or during the walk) does not return a list, empty or
\* partial: it fails with a "session closed" error.
C12_SessionClosedError ==
    [][(driver = "quit" /\ pc \in {"idle", "nav", "wait", "harvest"}) =>
          pc' # "done"]_vars

\* <<page, index>> pairs in page-then-DOM order
Precedes(a, b) == a[1] < b[1] \/ (a[1] = b[1] /\ a[2] < b[2])

\* number of containers of a page whose extraction does not fail
RECURSIVE Extractable(_)
Extractable(els) ==
    IF els = <<>> THEN 0
    ELSE (IF ExtractionFails(Head(els)) THEN 0 ELSE 1) + Extractable(Tail(els))

RECURSIVE ExtractableOn(_)
ExtractableOn(pages) ==
    IF pages = <<>> THEN 0
    ELSE Extractable(Head(pages)) + ExtractableOn(Tail(pages))

\* C13: the list is in strict page-then-DOM order at every moment: the
\* containers behind consecutive records come in increasing <<page, index>>
\* order, every record is the unmodified extraction of its container, and
\* the returned list holds one record for every extractable container of
\* every harvested page, equal records included.
C13_PageThenDomOrder ==
    /\ Len(origin) = Len(reviews_data)
    /\ \A j \in 1..(Len(origin) - 1) : Precedes(origin[j], origin[j + 1])
    /\ \A j \in 1..Len(origin) :
          /\ origin[j][1] \in 1..Len(seen)
          /\ origin[j][2] \in 1..Len(seen[origin[j][1]])
          /\ reviews_data[j] = extract_review_data(seen[origin[j][1]][origin[j][2]])
    /\ pc = "done" =>
          /\ ret = reviews_data
          /\ Len(ret) = ExtractableOn(seen)

C13_Witness ==
    /\ pc = "done"
    /\ origin = <<<<1, 1>>, <<1, 2>>, <<2, 2>>>>
    /\ ret[1] = ret[2]
    /\ ret[2] = ret[3]
    /\ seen[2][1] = Stale

\* the result of a clean run that found no data source: no data, success
\* false, no key 'error'
CleanEmptyResult(res) ==
    /\ res.rufus_questions = <<>>
    /\ res.customer_insights = EmptyDict
    /\ res.data_sources_found = <<>>
    /\ ~res.success
    /\ ~res.has_error

\* C14 as stated: a run of scrape_product_data that failed to start the
\* session or to navigate never returns the result of a clean run that found
\* no data source (success false and no error information).
C14_FailureDistinguishable ==
    (ipc = "done" /\ exit_at \in {"start_failed", "navigate_failed"}) =>
        ~CleanEmptyResult(results)

\* the values of the query parameter filterByStar in a URL, in order
RECURSIVE StarFilters(_)
StarFilters(url) ==
    IF Len(url) < 2 THEN <<>>
    ELSE IF Head(url) = "&filterByStar=" THEN <<url[2]>> \o StarFilters(Tail(url))
    ELSE StarFilters(Tail(url))

\* the characters between the prefix and the reference path
IdOf(url) == TakeUntil(Tail(url), {"/ref=cm_cr_dp_d_show_all_btm",
                                   "/ref=cm_cr_arp_d_viewopt_sr"})

\* C15: the URL get_reviews_url builds carries exactly one star filter,
\* positive when is_my_product is true and critical when it is false, for
\* every product id and in both copies of the function; the product id
\* appears in the path unchanged.
C15_FilterPolarity ==
    reviews_url # <<>> =>
        /\ StarFilters(reviews_url) =
              IF is_my_product THEN <<"positive">> ELSE <<"critical">>
        /\ IdOf(reviews_url) = product_id

C15_Witness ==
    /\ reviews_url # <<>>
    /\ module = "combined"
    /\ ~is_my_product
    /\ product_id = <<"B", "0", "X">>
    /\ StarFilters(reviews_url) = <<"critical">>

\* C16 as stated: one scan of the sign-in selectors performs at most one
\* synthetic click, however many selectors match a sign-in affordance.
C16_AtMostOneClick == gate_clicks <= 1

\* C17 as stated: an exception raised while the gate inspects the page (the
\* selector scan, the URL read, the logged-in element check) never ends the
\* navigation or the run: from every step of the gate the run goes on.
C17_GateFaultsSwallowed ==
    [][(ipc \in {"gate_scan", "gate_url", "login_wait"}) =>
          (ipc' # "done")]_vars

\* C18: every step of wait_for_login_completion either keeps polling or
\* hands control back to navigate_to_product with True; the wait ends only
\* by a detection or by the exhaustion of its attempts, exceptions in the
\* polls included, and never ends the run.
C18_LoginWaitProceeds ==
    [][ipc = "login_wait" =>
          /\ ipc' \in {"login_wait", "post_gate"}
          /\ exit_at' = "none"
          /\ ipc' = "post_gate" => login_outcome' \in {"detected", "timeout"}]_vars

C18_Witness ==
    /\ ipc = "post_gate"
    /\ login_outcome = "timeout"
    /\ polls = MaxAttempts
    /\ poll_faults = MaxAttempts
    /\ exit_at = "none"

\* C19 as stated: when the browser was created and only the injection of
\* the anti-detection script failed, the session counts as started:
\* start_driver does not raise and the wait object is set up.
C19_ScriptFailureNonFatal ==
    start_outcome = "script_fail" => (pc # "raised" /\ wait = "set")

\* C20 as stated: in the reviews flow no page is harvested before the login
\* check has run on the navigated page.
C20_GateBeforeHarvest == cycles > 0 => gate_checks > 0

\* a summary element a strategy can use: it exists and its stripped text is
\* not empty
Usable(e) == e.present /\ strip(e.raw) # <<>>

\* C21: the summary is the stripped text of the first selector, in list
\* order, whose element exists and has non-empty stripped text; a selector
\* is consulted only while every earlier one was missing or empty, and the
\* summary is empty only when no selector is usable.
C21_FirstMatchWins ==
    dom_summary # <<>> =>
        /\ ipc = "summary" =>
              /\ insights.customers_say_summary = <<>>
              /\ \A j \in 1..(s_sel - 1) : ~Usable(dom_summary[j])
        /\ ipc = "aspects" =>
              /\ \A k \in 1..NumSummarySelectors :
                    (Usable(dom_summary[k])
                        /\ \A j \in 1..(k - 1) : ~Usable(dom_summary[j])) =>
                    insights.customers_say_summary = strip(dom_summary[k].raw)
              /\ (\A k \in 1..NumSummarySelectors : ~Usable(dom_summary[k])) =>
                    insights.customers_say_summary = <<>>

C21_Witness ==
    /\ ipc = "aspects"
    /\ dom_summary = <<ElemText(<<SP>>), ElemText(<<SP, "s">>), ElemText(<<"u">>)>>
    /\ insights.customers_say_summary = <<"s">>

\* the call returned a dictionary (not None)
Returned == "title" \in DOMAIN record

TextFieldNames == {"title", "text", "author", "date"}
RecordKeys ==
    {"title", "rating", "text", "author", "date", "verified_purchase",
     "helpful_votes"}

\* C22: in every returned record each of title, text, author and date is
\* non-empty text or the sentinel "N/A", and no field is omitted.
C22_FieldNonEmptyOrSentinel ==
    Returned =>
        /\ DOMAIN record = RecordKeys
        /\ \A f \in TextFieldNames : record[f] = NA \/ record[f] # <<>>

\* C23: the rating of every returned record is one of "1".."5" or "N/A".
C23_RatingInRange ==
    Returned => record.rating \in {<<dg>> : dg \in Digits} \cup {NA}

\* extract_rufus_questions has returned to scrape_product_data and the page
\* of its fallback pass is known
QuestionsReturned == ipc = "summary" /\ "els" \in DOMAIN dom_fallback

FromFallback(qs) == \A i \in 1..Len(qs) : qs[i].selector_used = Fallback
Texts(qs) == [i \in 1..Len(qs) |-> qs[i].question_text]

\* the acceptance test with the length window 10..200 taken inclusively
WindowInclusive(el) ==
    el.q /\ 10 <= el.len /\ el.len <= 200 /\ ~el.noise

\* the acceptance test with the window taken exclusively (11..199)
WindowExclusive(el) ==
    el.q /\ 10 < el.len /\ el.len < 200 /\ ~el.noise

\* C24 as stated: fallback entries appear only in a list without scoped
\* entries, and when the fallback pass ran it kept exactly the elements
\* with a "?", a trimmed length of 10 to 200 inclusive and no noise phrase.
C24_FallbackWindowInclusive ==
    QuestionsReturned =>
        /\ (\E i \in 1..Len(questions) : questions[i].selector_used = Fallback)
               => FromFallback(questions)
        /\ (FromFallback(questions) /\ ~dom_fallback.raises) =>
               Texts(questions) = SelectSeq(dom_fallback.els, WindowInclusive)

\* C24 (amended): fallback entries appear only in a list without scoped
\* entries, and when the fallback pass ran it kept exactly the elements
\* with a "?", a trimmed length strictly between 10 and 200 (11 to 199)
\* and no noise phrase.
C24_FallbackWindowExclusive ==
    QuestionsReturned =>
        /\ (\E i \in 1..Len(questions) : questions[i].selector_used = Fallback)
               => FromFallback(questions)
        /\ (FromFallback(questions) /\ ~dom_fallback.raises) =>
               Texts(questions) = SelectSeq(dom_fallback.els, WindowExclusive)

C24_Witness ==
    /\ QuestionsReturned
    /\ ~dom_fallback.raises
    /\ dom_fallback.els = <<Pill(TRUE, 199, FALSE)>>
    /\ Len(questions) = 1
    /\ questions[1].selector_used = Fallback
    /\ questions[1].question_text = Pill(TRUE, 199, FALSE)

\* C25: the k-th entry of the returned question list carries
\* question_number k.
C25_NumberedInOrder ==
    QuestionsReturned =>
        \A k \in 1..Len(questions) : questions[k].question_number = k

\* C30: all entries of a returned question list share one selector_used,
\* and all entries of a returned aspect list share one selector_used.
C30_SingleStrategy ==
    /\ QuestionsReturned =>
          \A i, j \in 1..Len(questions) :
             questions[i].selector_used = questions[j].selector_used
    /\ ipc = "done" =>
          \A i, j \in 1..Len(insights.aspects) :
             insights.aspects[i].selector_used = insights.aspects[j].selector_used

\* C26: a scraper instance never has more than one browser session that was
\* started and not yet quit, however often scrape_product_data is called.
C26_SingleSession == open_sessions <= 1

\* C27: after a failed start_driver (scrape_reviews raised) the scraper
\* holds no driver handle and no wait, and no call ever walks the pages on
\* a session without its wait.
C27_FailedStartLeavesNoHandle ==
    /\ pc = "raised" => (driver = "None" /\ wait = "None")
    /\ pc \in {"nav", "wait", "harvest"} => wait = "set"

\* no browser that the function started is still running
NoOpenSession == rufus_scraper # "open" /\ reviews_scraper # "open"

\* C28: every session automated_scrape_and_analyze opens is closed when its
\* scraping step is left, on every exit path, and so before the analysis
\* step begins and before the function returns.
C28_SessionsClosedOnExit ==
    /\ stage \in {"mine", "mine_save", "competitor", "competitor_save",
                  "reviews_finally"} => rufus_scraper # "open"
    /\ stage \in {"files", "analysis", "returned"} => NoOpenSession
    /\ returned # "none" => NoOpenSession

C28_Witness ==
    /\ stage = "returned"
    /\ returned = "None"
    /\ exit_path = "no_data"
    /\ rufus_scraper = "quit"
    /\ reviews_scraper = "quit"
    /\ Len(stage_log) = 3

\* a stage ran
Began(s) == \E i \in 1..Len(stage_log) : stage_log[i].stage = s

\* a stage returned data without raising
Yielded(s) ==
    \E i \in 1..Len(stage_log) :
       stage_log[i].stage = s /\ ~stage_log[i].raised /\ stage_log[i].n > 0

\* entry i is a stage that raised or returned no data
Failed(i) == stage_log[i].raised \/ stage_log[i].n = 0

\* C29: with the insights step, a stage runs only after the stage before it
\* returned data (insights success, own reviews non-empty, competitor
\* reviews non-empty); after a stage that raised or returned no data no
\* later stage runs and the function returns None.
C29_StagesGated ==
    variant = "rufus_img_gen" =>
        /\ Began("mine") => Yielded("insights")
        /\ Began("competitor") => Yielded("mine")
        /\ Began("analysis") => Yielded("competitor")
        /\ \A i \in 1..Len(stage_log) : Failed(i) => i = Len(stage_log)
        /\ \A i \in 1..Len(stage_log) :
              (Failed(i) /\ returned # "none") => returned = "None"

C29_Witness ==
    /\ variant = "rufus_img_gen"
    /\ stage = "returned"
    /\ returned = "None"
    /\ stage_log = <<Entry("insights", FALSE, 2), Entry("mine", FALSE, 0)>>

====
